---- MODULE Spec2Model ----
(***************************************************************************)
(* go-dcp group membership.                                                *)
(*                                                                         *)
(*  - couchbase/membership.go: the self-organizing membership.  Every      *)
(*    instance registers an instance record (TTL _expirySec) and an entry  *)
(*    of the index document, rewrites its record on every heartbeat and    *)
(*    derives (memberNumber, totalMembers) in its monitor cycle.           *)
(*  - servicediscovery/service_discovery.go: the leader-elected service    *)
(*    discovery.  The leader numbers itself 1 and its followers 2..N.      *)
(*                                                                         *)
(* A process runs one membership type (dcp.group.membership.type), chosen  *)
(* in Init.  Time is counted in seconds; time.Now().UnixNano() is the      *)
(* clock `now`.                                                            *)
(***************************************************************************)
EXTENDS Integers, Sequences, FiniteSets, TLC

VARIABLES
    held,                 \* per follower, the model of the last Rebalance that reached it
    leaderCalls,          \* the calls the heartbeat tick has just made on leader clients
    busEvent,             \* the MembershipChanged model bus.Emit is dispatching, or NilModel
    membershipType,       \* config: dcp.group.membership.type
    now,                  \* wall clock (time.Now), in seconds
    index,                \* the index document <prefix><group>:instance:all
    docs,                 \* the instance records, by instance id
    status,               \* each process: new, registering, running, killed, panicked
    clusterJoinTime,      \* cbMembership.clusterJoinTime
    lastActiveInstances,  \* cbMembership.lastActiveInstances
    info,                 \* cbMembership.info: the last model emitted on the bus
    outcome,              \* the last monitor cycle that ended: whose it was and how it ended
    faultsLeft,           \* I/O errors the metadata bucket may still answer
    killsLeft,            \* processes that may still be stopped from outside
    amILeader,            \* serviceDiscovery.amILeader
    services,             \* serviceDiscovery.services: the names of the followers
    leaderService,        \* serviceDiscovery.leaderService: a leader's name, or NoLeader
    sdInfo,               \* serviceDiscovery.info: the last model SetInfo emitted
    sent,                 \* per follower, the last Rebalance(memberNumber, totalMembers) sent to it
    assigned,             \* StartMonitor's loop body: the Rebalance calls made since the tick began
    monitorPc,            \* StartMonitor's loop body: idle, or sending the assignments
    names,                \* StartMonitor's loop body: names := s.GetAll()
    sendIndex,            \* StartMonitor's loop body: position of the range over names
    heartbeatPc,          \* StartHeartbeat's loop body: idle, reassign, services
    tempLeaderService,    \* StartHeartbeat's loop body: tempLeaderService
    closed,               \* the followers whose Service.Client has been closed since they were added
    rangeLeft,            \* StartHeartbeat's services.Range: the names it has yet to visit
    pingFailed,           \* the followers whose Ping failed in the current Range
    pingOk,               \* the followers whose Ping succeeded in the current Range and that
                          \* no other operation has removed since the Range began
    emissions,            \* the MembershipChanged events membershipChangedListener has handled
    infoChan,             \* the goroutines of membershipChangedListener blocked on h.infoChan <- model
    getInfoPc,            \* a caller of GetInfo: idle, waiting on <-h.infoChan, returned
    got,                  \* the model GetInfo returned to that caller
    tickerStopped,        \* the tickers on which Stop() has been called
    tickerC,              \* per ticker, the ticks waiting in its channel C (it holds one)
    taskPc,               \* per task: sleeping, waiting on ticker.C, cycle, finished
    original,             \* an Instance value
    docKey,               \* the key its record is written under
    payload,              \* jsoniter.Marshal of the Instance
    storedDoc,            \* the document of docKey in the metadata bucket
    readDoc,              \* what Get returned for docKey
    decoded,              \* the Instance the monitor goroutine unmarshalled
    codecPc,              \* made, marshalled, written, read, unmarshalled
    vbucketCount,         \* V, the number of vbuckets of the bucket
    memberCount,          \* totalMembers of the model the discovery works with
    vbuckets              \* per member that has asked, the vbucket IDs GetVBuckets gave it

cbVars == <<now, index, docs, status, clusterJoinTime, lastActiveInstances,
            info, outcome, faultsLeft, killsLeft>>

svcVars == <<closed, rangeLeft, pingFailed, pingOk>>

sdVars == <<amILeader, services, leaderService, sdInfo, sent, assigned, monitorPc, names,
            sendIndex, heartbeatPc, tempLeaderService, svcVars>>

infoVars == <<emissions, infoChan, getInfoPc, got>>

\* The state of the parts that have a specification of their own.
stopVars == <<tickerStopped, tickerC, taskPc>>

codecVars == <<original, docKey, payload, storedDoc, readDoc, decoded, codecPc>>

vbVars == <<vbucketCount, memberCount, vbuckets>>

sideVars == <<infoVars, stopVars, codecVars, vbVars>>

vars == <<membershipType, busEvent, leaderCalls, held, cbVars, sdVars, sideVars>>

----------------------------------------------------------------------------
(* Bounds                                                                  *)

\* The clock is read at most MaxTicks steps of ClockStep after Epoch.
MaxTicks == 2

\* At most MaxFaults operations on the metadata bucket fail with an I/O error
\* (a Get, a decode, a write).
MaxFaults == 1

\* At most MaxKills processes are stopped from outside.
MaxKills == 1

\* The followers that register with a leader are named 1..MaxFollowers, the
\* leaders a follower is assigned 1..MaxLeaders (names ordered as strings are).
MaxFollowers == 2

MaxLeaders == 2

\* The instance ids (uuid.New()), ordered as their strings are.
IDs == {1, 2, 3}

\* The runs are those of a cluster of the processes SmallCluster, in which up
\* to MaxFaults operations fail and up to MaxKills processes are stopped, and
\* those of a cluster of all the processes IDs, in which none fails or is
\* stopped.
SmallCluster == {1, 2}

----------------------------------------------------------------------------
(* Constants of couchbase/membership.go                                    *)

_type == "instance"

_expirySec == 10

_heartbeatIntervalSec == 5

_heartbeatToleranceSec == 2

\* config.Dcp.Group.Membership.RebalanceDelay, set low by the deployment
RebalanceDelay == 1

\* The clock reading when the first process starts: UnixNano counts from
\* 1970, so it is far larger than every interval of the protocol.
Epoch == 100 * _expirySec

\* The clock advances in steps of one heartbeat interval.  A record is then
\* seen at the ages 0 (inside the tolerance), _heartbeatIntervalSec (older than
\* the tolerance, TTL still running) and _expirySec or more (TTL ended): one
\* age of each kind the code can tell apart.
ClockStep == _heartbeatIntervalSec

----------------------------------------------------------------------------
(* Documents of the metadata bucket                                        *)

\* An instance record: the JSON {type, heartbeatTime, clusterJoinTime} and the
\* time its TTL ends.  NoDoc: the key was never written.
NoDoc ==
    [present |-> FALSE, Type |-> _type, HeartbeatTime |-> 0, ClusterJoinTime |-> 0]

\* The record an instance writes at time t: Instance{Type, HeartbeatTime,
\* ClusterJoinTime} marshalled (ID is omitempty and nil), TTL _expirySec.
Record(t, joined) ==
    [present |-> TRUE, Type |-> _type, HeartbeatTime |-> t, ClusterJoinTime |-> joined]

NoIndex == [exists |-> FALSE, entries |-> <<>>]

NilModel == [MemberNumber |-> 0, TotalMembers |-> 0]

\* The log line a monitor cycle of instance `id` ends with.
Outcome(id, result) == [id |-> id, result |-> result]

NoOutcome == Outcome(0, "none")

\* A document written with a TTL is gone once the TTL has passed.  Every write
\* of a record sets HeartbeatTime to the time of the write.
Expired(doc) == now >= doc.HeartbeatTime + _expirySec

\* Get(ctx, agent, scope, collection, id): the record, or key-not-found.
Found(id) == docs[id].present /\ ~Expired(docs[id])

\* The Instance a monitor goroutine decodes from the record of `id`.  Its Type
\* and HeartbeatTime are read by isAlive only and never again once the
\* instance is in a list, so the lists keep ID and ClusterJoinTime.
DecodeInstance(id) ==
    [ID |-> id, ClusterJoinTime |-> docs[id].ClusterJoinTime]

----------------------------------------------------------------------------
(* Pure functions of cbMembership                                          *)

isAlive(heartbeatTime) ==
    (now - heartbeatTime) < heartbeatTime + _heartbeatToleranceSec

\* for k := range all { ids = append(ids, k) }: Go iterates a map in an
\* unspecified order, so every order of the keys is possible.
KeyOrders(m) ==
    {s \in [1..Cardinality(DOMAIN m) -> DOMAIN m] :
        \A x \in DOMAIN m : \E k \in DOMAIN s : s[k] = x}

\* sort.SliceStable(ids, all[ids[i]] < all[ids[j]]): ascending by the index's
\* clusterJoinTime; equal keys keep the order the map iteration gave them.
SortedIds(m) ==
    {s \in KeyOrders(m) :
        \A k, l \in DOMAIN s : k < l => m[s[k]] <= m[s[l]]}

\* Only the lengths are compared.
isClusterChanged_LengthOnly(last, currentActiveInstances) ==
    Len(last) # Len(currentActiveInstances)

\* No comparison: every cycle counts as a change.
isClusterChanged_Always(last, currentActiveInstances) == TRUE

isClusterChanged(last, currentActiveInstances) ==
    \/ Len(last) # Len(currentActiveInstances)
    \/ \E k \in 1..Len(last) : last[k].ID # currentActiveInstances[k].ID

\* selfOrder = index instead of index + 1.
selfOrder_ZeroBased(self, instances) ==
    IF \E k \in 1..Len(instances) : instances[k].ID = self
    THEN (CHOOSE k \in 1..Len(instances) : instances[k].ID = self) - 1
    ELSE 0

\* rebalance(): the 1-based position of the first instance with ID self, or 0.
selfOrder(self, instances) ==
    IF \E k \in 1..Len(instances) : instances[k].ID = self
    THEN CHOOSE k \in 1..Len(instances) :
            /\ instances[k].ID = self
            /\ \A l \in 1..(k - 1) : instances[l].ID # self
    ELSE 0

\* The index is given the time of the rewrite for every instance.
IndexOf_StampsNow(instances) ==
    [id \in {instances[k].ID : k \in 1..Len(instances)} |-> now]

\* updateIndex(): the map written back, built from lastActiveInstances.
IndexOf(instances) ==
    [id \in {instances[k].ID : k \in 1..Len(instances)} |->
        instances[CHOOSE k \in 1..Len(instances) :
                     /\ instances[k].ID = id
                     /\ \A l \in (k + 1)..Len(instances) : instances[l].ID # id
                 ].ClusterJoinTime]

----------------------------------------------------------------------------
(* The self-organizing membership                                          *)

CBInit ==
    /\ now = Epoch
    /\ index = NoIndex
    /\ docs = [i \in IDs |-> NoDoc]
    /\ \/ /\ status = [i \in IDs |-> IF i \in SmallCluster THEN "new" ELSE "absent"]
          /\ faultsLeft = MaxFaults
          /\ killsLeft = MaxKills
       \/ /\ status = [i \in IDs |-> "new"]
          /\ faultsLeft = 0
          /\ killsLeft = 0
    /\ clusterJoinTime = [i \in IDs |-> 0]
    /\ lastActiveInstances = [i \in IDs |-> <<>>]
    /\ info = [i \in IDs |-> NilModel]
    /\ outcome = NoOutcome

\* register(), first half: now := time.Now(); createIndex(ctx, now) upserts the
\* path <id> of the index document, creating the document if it is missing
\* (SubdocDocFlagMkDoc); an error panics.  The code treats all ids alike, so
\* the processes are numbered in the order they start.
RegisterIndex(i) ==
    /\ membershipType = "couchbase"
    /\ status[i] = "new"
    /\ \A j \in IDs : j < i => status[j] # "new"
    /\ \/ /\ index' = [exists |-> TRUE,
                       entries |-> [id \in DOMAIN index.entries \cup {i} |->
                                      IF id = i THEN now ELSE index.entries[id]]]
          /\ clusterJoinTime' = [clusterJoinTime EXCEPT ![i] = now]
          /\ status' = [status EXCEPT ![i] = "registering"]
          /\ UNCHANGED faultsLeft
       \/ /\ faultsLeft > 0
          /\ faultsLeft' = faultsLeft - 1
          /\ status' = [status EXCEPT ![i] = "panicked"]
          /\ UNCHANGED <<index, clusterJoinTime>>
    /\ UNCHANGED <<membershipType, held, busEvent, leaderCalls, sideVars, sdVars, now, docs, lastActiveInstances, info, outcome, killsLeft>>

\* register(), second half: the instance record {type, heartbeatTime: now,
\* clusterJoinTime: now}, now being the reading of the first half, is written
\* with TTL _expirySec (UpdateDocument, and CreateDocument + UpdateDocument on
\* key-not-found); an error panics.  NewCBMembership then starts the heartbeat
\* and the monitor.
RegisterRecord(i) ==
    /\ status[i] = "registering"
    /\ \/ /\ docs' = [docs EXCEPT ![i] = Record(clusterJoinTime[i], clusterJoinTime[i])]
          /\ status' = [status EXCEPT ![i] = "running"]
          /\ UNCHANGED faultsLeft
       \/ /\ faultsLeft > 0
          /\ faultsLeft' = faultsLeft - 1
          /\ status' = [status EXCEPT ![i] = "panicked"]
          /\ UNCHANGED docs
    /\ UNCHANGED <<membershipType, held, busEvent, leaderCalls, sideVars, sdVars, now, index, clusterJoinTime, lastActiveInstances,
                   info, outcome, killsLeft>>

\* heartbeat(), on a tick of heartbeatTicker (every _heartbeatIntervalSec):
\* UpdateDocument rewrites the record with TTL _expirySec.  UpdateDocument
\* answers key-not-found for a record that is gone (register() handles that
\* answer); heartbeat() logs any error and returns, which changes nothing.
heartbeat(i) ==
    /\ status[i] = "running"
    /\ Found(i)
    /\ now >= docs[i].HeartbeatTime + _heartbeatIntervalSec
    /\ docs' = [docs EXCEPT ![i] = Record(now, clusterJoinTime[i])]
    /\ UNCHANGED <<membershipType, held, busEvent, leaderCalls, sideVars, sdVars, now, index, status, clusterJoinTime,
                   lastActiveInstances, info, outcome, faultsLeft, killsLeft>>

\* The process is stopped from outside (the instance is killed): its
\* documents stay in the bucket until their TTL ends.
Kill(i) ==
    /\ status[i] = "running"
    /\ killsLeft > 0
    /\ killsLeft' = killsLeft - 1
    /\ status' = [status EXCEPT ![i] = "killed"]
    /\ UNCHANGED <<membershipType, held, busEvent, leaderCalls, sideVars, sdVars, now, index, docs, clusterJoinTime,
                   lastActiveInstances, info, outcome, faultsLeft>>

\* The clock advances.  register() is over within the clock step in which it
\* read the time.
Tick ==
    /\ membershipType = "couchbase"
    /\ now < Epoch + MaxTicks * ClockStep
    /\ \A i \in IDs : status[i] # "registering"
    /\ now' = now + ClockStep
    /\ UNCHANGED <<membershipType, held, busEvent, leaderCalls, sideVars, sdVars, index, docs, status, clusterJoinTime,
                   lastActiveInstances, info, outcome, faultsLeft, killsLeft>>

\* monitor(), lines 174-215: instances[k] is the decoded record of ids[k] when
\* it was found and isAlive, nil otherwise; filteredInstances drops the nils.
FilteredInstances(ids) ==
    LET kept == SelectSeq(ids, LAMBDA id :
                    Found(id) /\ isAlive(docs[id].HeartbeatTime))
    IN  [k \in 1..Len(kept) |-> DecodeInstance(kept[k])]

\* rebalance(instances) followed by updateIndex(ctx): panic when self is not
\* among the instances; otherwise emit the model on the bus (the listener
\* stores it in h.info), record the instances and write the index back.  An
\* error of the index write is logged and nothing more.
rebalance(i, instances) ==
    IF selfOrder(i, instances) = 0
    THEN /\ status' = [status EXCEPT ![i] = "panicked"]
         /\ outcome' = Outcome(i, "selfNotFound")
         /\ UNCHANGED <<info, lastActiveInstances, index, faultsLeft>>
    ELSE /\ info' = [info EXCEPT ![i] =
                       [MemberNumber |-> selfOrder(i, instances),
                        TotalMembers |-> Len(instances)]]
         /\ lastActiveInstances' = [lastActiveInstances EXCEPT ![i] = instances]
         /\ \/ /\ index' = [exists |-> TRUE, entries |-> IndexOf(instances)]
               /\ UNCHANGED faultsLeft
            \/ /\ faultsLeft > 0
               /\ faultsLeft' = faultsLeft - 1
               /\ UNCHANGED index
         /\ outcome' = Outcome(i, "emitted")
         /\ UNCHANGED status

\* The index error ends the cycle and also drops the recorded instances.
getIndexFails_ForgetsInstances(i) ==
    /\ faultsLeft > 0
    /\ faultsLeft' = faultsLeft - 1
    /\ outcome' = Outcome(i, "indexError")
    /\ lastActiveInstances' = [lastActiveInstances EXCEPT ![i] = <<>>]
    /\ UNCHANGED <<status, info, index>>

\* monitor(), lines 151-163: the Get of the index document fails, or the
\* document does not decode; the error is logged and the cycle ends there.
getIndexFails(i) ==
    /\ faultsLeft > 0
    /\ faultsLeft' = faultsLeft - 1
    /\ outcome' = Outcome(i, "indexError")
    /\ UNCHANGED <<status, info, lastActiveInstances, index>>

\* The record error is logged and the cycle ends there.
getInstanceFails_Skips(i) ==
    /\ index.exists
    /\ DOMAIN index.entries # {}
    /\ faultsLeft > 0
    /\ faultsLeft' = faultsLeft - 1
    /\ outcome' = Outcome(i, "instanceError")
    /\ UNCHANGED <<status, info, lastActiveInstances, index>>

\* monitor(), lines 179-199: in the goroutine of one of the ids, the Get of
\* the record fails with an error that is not key-not-found, or the record
\* does not decode; the goroutine panics, which ends the process.
getInstanceFails(i) ==
    /\ index.exists
    /\ DOMAIN index.entries # {}
    /\ faultsLeft > 0
    /\ faultsLeft' = faultsLeft - 1
    /\ status' = [status EXCEPT ![i] = "panicked"]
    /\ outcome' = Outcome(i, "instanceError")
    /\ UNCHANGED <<info, lastActiveInstances, index>>

\* The list of the last emission is forgotten.
unchangedCycle_ForgetsList(i) ==
    /\ outcome' = Outcome(i, "unchanged")
    /\ lastActiveInstances' = [lastActiveInstances EXCEPT ![i] = <<>>]
    /\ UNCHANGED <<status, info, index, faultsLeft>>

\* monitor(), lines 217-220: isClusterChanged is false and the cycle ends
\* without a call of rebalance.
unchangedCycle(i) ==
    /\ outcome' = Outcome(i, "unchanged")
    /\ UNCHANGED <<status, info, lastActiveInstances, index, faultsLeft>>

\* The monitor loop runs from the start.
monitorStarted_NoDelay(i) == TRUE

\* startMonitor, lines 277-280: the goroutine sleeps RebalanceDelay before
\* it takes the first tick; it is started when register() has returned.
monitorStarted(i) == now >= clusterJoinTime[i] + RebalanceDelay

\* monitor(), on a tick of monitorTicker (the loop starts RebalanceDelay after
\* startMonitor): the index read (lines 151-163), the ordering of the ids and
\* the record reads (lines 165-208), then rebalance and updateIndex when the
\* cluster changed (lines 210-220).
monitor(i) ==
    /\ status[i] = "running"
    /\ monitorStarted(i)
    /\ \/ getIndexFails(i)
       \/ getInstanceFails(i)
       \/ /\ index.exists
          /\ \E ids \in SortedIds(index.entries) :
             \E filteredInstances \in {FilteredInstances(ids)} :
                IF isClusterChanged(lastActiveInstances[i], filteredInstances)
                THEN rebalance(i, filteredInstances)
                ELSE unchangedCycle(i)
    /\ UNCHANGED <<membershipType, held, busEvent, leaderCalls, sideVars, sdVars, now, docs, clusterJoinTime, killsLeft>>

CBNext ==
    \/ \E i \in IDs : RegisterIndex(i)
    \/ \E i \in IDs : RegisterRecord(i)
    \/ \E i \in IDs : heartbeat(i)
    \/ \E i \in IDs : monitor(i)
    \/ \E i \in IDs : Kill(i)
    \/ Tick

----------------------------------------------------------------------------
(* The leader-elected service discovery                                    *)

Followers == 1..MaxFollowers

Leaders == 1..MaxLeaders

NoLeader == 0

SDInit ==
    /\ held = [f \in Followers |-> NilModel]
    /\ leaderCalls = <<>>
    /\ busEvent = NilModel
    /\ amILeader = FALSE
    /\ services = {}
    /\ leaderService = NoLeader
    /\ sdInfo = NilModel
    /\ sent = [f \in Followers |-> NilModel]
    /\ assigned = {}
    /\ closed = {}
    /\ rangeLeft = {}
    /\ pingFailed = {}
    /\ pingOk = {}
    /\ monitorPc = "idle"
    /\ names = <<>>
    /\ sendIndex = 0
    /\ heartbeatPc = "idle"
    /\ tempLeaderService = NoLeader

\* membership.Model.IsChanged(other): true for a nil other, else whether a
\* field differs.
IsChanged(newInfo, other) ==
    \/ other = NilModel
    \/ newInfo.MemberNumber # other.MemberNumber
    \/ newInfo.TotalMembers # other.TotalMembers

\* The model is stored and emitted without asking IsChanged.
SetInfo_AlwaysEmits(memberNumber, totalMembers) ==
    LET newInfo == [MemberNumber |-> memberNumber, TotalMembers |-> totalMembers]
    IN  [info |-> newInfo, event |-> newInfo]

\* SetInfo(memberNumber, totalMembers), lines 188-199: info is the value of
\* s.info afterwards and event is the model handed to bus.Emit, NilModel
\* when nothing is emitted.
SetInfo(memberNumber, totalMembers) ==
    LET newInfo == [MemberNumber |-> memberNumber, TotalMembers |-> totalMembers]
    IN  IF IsChanged(newInfo, sdInfo)
        THEN [info |-> newInfo, event |-> newInfo]
        ELSE [info |-> sdInfo, event |-> NilModel]

\* GetAll(): the names of the services map, sort.Strings'ed.
RECURSIVE Ascending(_)
Ascending(S) ==
    IF S = {} THEN <<>>
    ELSE LET least == CHOOSE x \in S : \A y \in S : x <= y
         IN  <<least>> \o Ascending(S \ {least})

GetAll == Ascending(services)

Add(name) ==
    /\ membershipType = "kubernetesHa"
    /\ services' = services \cup {name}
    /\ closed' = closed \ {name}
    /\ UNCHANGED <<membershipType, held, busEvent, leaderCalls, sideVars, cbVars, amILeader, leaderService, sdInfo, sent, assigned,
                   monitorPc, names, sendIndex, heartbeatPc, tempLeaderService,
                   rangeLeft, pingFailed, pingOk>>

\* Remove(name): closes the client of a service that is in the map and
\* deletes it.
Remove(name) ==
    /\ membershipType = "kubernetesHa"
    /\ name \in services
    /\ closed' = closed \cup {name}
    /\ services' = services \ {name}
    /\ pingOk' = pingOk \ {name}
    /\ UNCHANGED <<membershipType, held, busEvent, leaderCalls, sideVars, cbVars, amILeader, leaderService, sdInfo, sent, assigned,
                   monitorPc, names, sendIndex, heartbeatPc, tempLeaderService,
                   rangeLeft, pingFailed>>

\* RemoveAll(), lines 59-65: every name is deleted; no client is closed.
RemoveAll ==
    /\ membershipType = "kubernetesHa"
    /\ services # {}
    /\ services' = {}
    /\ pingOk' = {}
    /\ UNCHANGED <<membershipType, held, busEvent, leaderCalls, sideVars, cbVars, amILeader, leaderService, sdInfo, sent, assigned,
                   monitorPc, names, sendIndex, heartbeatPc, tempLeaderService,
                   closed, rangeLeft, pingFailed>>

BeLeader ==
    /\ membershipType = "kubernetesHa"
    /\ ~amILeader
    /\ amILeader' = TRUE
    /\ UNCHANGED <<membershipType, held, busEvent, leaderCalls, sideVars, cbVars, svcVars, services, leaderService, sdInfo, sent, assigned,
                   monitorPc, names, sendIndex, heartbeatPc, tempLeaderService>>

DontBeLeader ==
    /\ membershipType = "kubernetesHa"
    /\ amILeader
    /\ amILeader' = FALSE
    /\ UNCHANGED <<membershipType, held, busEvent, leaderCalls, sideVars, cbVars, svcVars, services, leaderService, sdInfo, sent, assigned,
                   monitorPc, names, sendIndex, heartbeatPc, tempLeaderService>>

AssignLeader(leader) ==
    /\ membershipType = "kubernetesHa"
    /\ leaderService # leader
    /\ leaderService' = leader
    /\ UNCHANGED <<membershipType, held, busEvent, leaderCalls, sideVars, cbVars, svcVars, amILeader, services, sdInfo, sent, assigned,
                   monitorPc, names, sendIndex, heartbeatPc, tempLeaderService>>

\* RemoveLeader(): nothing for a nil leaderService; else its client is closed
\* and leaderService becomes nil.
RemoveLeader ==
    /\ membershipType = "kubernetesHa"
    /\ leaderService # NoLeader
    /\ leaderService' = NoLeader
    /\ UNCHANGED <<membershipType, held, busEvent, leaderCalls, sideVars, cbVars, svcVars, amILeader, services, sdInfo, sent, assigned,
                   monitorPc, names, sendIndex, heartbeatPc, tempLeaderService>>

\* The leader is not counted.
totalMembers_NoLeader(followerNames) == Len(followerNames)

\* StartMonitor, line 155: totalMembers := len(names) + 1.
totalMembers(followerNames) == Len(followerNames) + 1

\* The first follower is numbered like the leader.
followerNumber_FromOne(idx) == idx + 1

\* StartMonitor, line 161: the follower at index idx (from 0) of names is
\* sent the member number idx + 2.
followerNumber(idx) == idx + 2

\* The tick goes on whoever is leader.
isLeaderTick_Always == TRUE

\* StartMonitor, lines 150-152: `if !s.amILeader { continue }`.
isLeaderTick == amILeader

\* StartMonitor, one tick of monitorTicker, lines 150-157: nothing unless
\* amILeader; else names := s.GetAll(), totalMembers := len(names) + 1 and
\* s.SetInfo(1, totalMembers).
MonitorTick ==
    /\ membershipType = "kubernetesHa"
    /\ monitorPc = "idle"
    /\ isLeaderTick
    /\ names' = GetAll
    /\ sdInfo' = SetInfo(1, totalMembers(GetAll)).info
    /\ busEvent' = SetInfo(1, totalMembers(GetAll)).event
    /\ sendIndex' = 1
    /\ assigned' = {}
    /\ monitorPc' = "sending"
    /\ UNCHANGED <<membershipType, held, leaderCalls, sideVars, cbVars, svcVars, amILeader, services, leaderService, sent,
                   heartbeatPc, tempLeaderService>>

\* StartMonitor, lines 159-165, one round of the range over names: the
\* service, when it is still in the map, is sent Rebalance(index+2,
\* totalMembers), index counting from 0; an error of the call is logged.
\* The call never reaches the follower.
Rebalance_NeverArrives(name, model, ok) == held

\* StartMonitor, lines 161-163: service.Client.Rebalance(index+2,
\* totalMembers) either reaches the follower, which then holds the model, or
\* returns an error, which is logged.
Rebalance(name, model, ok) ==
    IF ok THEN [held EXCEPT ![name] = model] ELSE held

MonitorSend ==
    /\ monitorPc = "sending"
    /\ busEvent' = NilModel
    /\ IF sendIndex <= Len(names)
       THEN /\ IF names[sendIndex] \in services
               THEN LET model == [MemberNumber |-> followerNumber(sendIndex - 1),
                                  TotalMembers |-> totalMembers(names)]
                    IN  /\ sent' = [sent EXCEPT ![names[sendIndex]] = model]
                        /\ assigned' = assigned \cup
                               {[name |-> names[sendIndex], model |-> model]}
                        /\ \E ok \in BOOLEAN :
                              held' = Rebalance(names[sendIndex], model, ok)
               ELSE UNCHANGED <<sent, assigned, held>>
            /\ sendIndex' = sendIndex + 1
            /\ UNCHANGED <<monitorPc, names>>
       ELSE /\ monitorPc' = "idle"
            /\ names' = <<>>
            /\ sendIndex' = 0
            /\ UNCHANGED <<sent, assigned, held>>
    /\ UNCHANGED <<membershipType, leaderCalls, sideVars, cbVars, svcVars, amILeader, services, leaderService, sdInfo,
                   heartbeatPc, tempLeaderService>>

\* services.Range, line 125: the Range visits the services that are in the
\* map when it begins.
RangeBegins ==
    /\ rangeLeft' = services
    /\ UNCHANGED <<pingFailed, pingOk>>

\* StartHeartbeat, one tick of heartbeatTicker, lines 108-113: the leader, if
\* one is assigned, is pinged; when the Ping fails the tick goes on to
\* ReassignLeader, and otherwise to the Range over the services.
HeartbeatTick ==
    /\ membershipType = "kubernetesHa"
    /\ heartbeatPc = "idle"
    /\ \/ /\ heartbeatPc' = "services"
          /\ RangeBegins
          /\ UNCHANGED tempLeaderService
       \/ /\ leaderService # NoLeader
          /\ tempLeaderService' = leaderService
          /\ heartbeatPc' = "reassign"
          /\ UNCHANGED <<rangeLeft, pingFailed, pingOk>>
    /\ UNCHANGED <<membershipType, held, busEvent, leaderCalls, sideVars, cbVars, amILeader, services, leaderService, sdInfo,
                   sent, assigned, monitorPc, names, sendIndex, closed>>

\* A call of the heartbeat on the client of a leader service.
Call(op, on, ok) == [op |-> op, on |-> on, ok |-> ok]

\* Register is called whatever Reconnect returned.
ReassignLeader_RegistersAnyway(reconnectOk, registerOk) ==
    IF leaderService = NoLeader
    THEN <<>>
    ELSE <<Call("Reconnect", leaderService, reconnectOk),
           Call("Register", leaderService, registerOk)>>

\* ReassignLeader, lines 89-101: the calls it makes on the client of
\* s.leaderService: none when no leader is assigned, Reconnect, and
\* Register when Reconnect has returned no error.
ReassignLeader(reconnectOk, registerOk) ==
    IF leaderService = NoLeader
    THEN <<>>
    ELSE IF reconnectOk
         THEN <<Call("Reconnect", leaderService, TRUE),
                Call("Register", leaderService, registerOk)>>
         ELSE <<Call("Reconnect", leaderService, FALSE)>>

\* ReassignLeader, lines 90-92 and 100: the error it returns.
ReassignFailed(calls) == calls = <<>> \/ ~calls[Len(calls)].ok

\* StartHeartbeat, lines 115-121: ReassignLeader() fails when no leader is
\* assigned or when Reconnect or Register fails; then the client of
\* tempLeaderService is closed, through RemoveLeader (lines 79-87) when it
\* still is the leaderService.  The Range over the services follows.
HeartbeatReassign ==
    /\ heartbeatPc = "reassign"
    /\ \E reconnectOk, registerOk \in BOOLEAN :
          LET calls == ReassignLeader(reconnectOk, registerOk)
          IN  IF ~ReassignFailed(calls)
              THEN /\ leaderCalls' = calls
                   /\ UNCHANGED leaderService
              ELSE IF tempLeaderService # leaderService
              THEN /\ leaderCalls' = Append(calls, Call("Close", tempLeaderService, TRUE))
                   /\ UNCHANGED leaderService
              ELSE /\ leaderCalls' = IF leaderService = NoLeader
                                     THEN calls
                                     ELSE Append(calls, Call("Close", leaderService, TRUE))
                   /\ leaderService' = NoLeader
    /\ heartbeatPc' = "services"
    /\ RangeBegins
    /\ tempLeaderService' = NoLeader
    /\ UNCHANGED <<membershipType, held, busEvent, sideVars, cbVars, amILeader, services, sdInfo, sent, assigned,
                   monitorPc, names, sendIndex, closed>>

\* The callback of the Range leaves a service whose Ping failed in the map.
PingFails_KeepsService(name) ==
    /\ pingFailed' = pingFailed \cup {name}
    /\ UNCHANGED <<services, closed, pingOk>>

\* StartHeartbeat, lines 127-130, with Remove, lines 51-57: the Ping of the
\* service has failed; if the name is still in the map its client is closed
\* and the name is deleted.
PingFails(name) ==
    /\ pingFailed' = pingFailed \cup {name}
    /\ IF name \in services
       THEN /\ closed' = closed \cup {name}
            /\ services' = services \ {name}
       ELSE UNCHANGED <<services, closed>>
    /\ UNCHANGED pingOk

\* StartHeartbeat, lines 125-133, one call of the Range's callback: a service
\* the Range has yet to visit is pinged, and removed when its Ping fails.
HeartbeatServices ==
    /\ heartbeatPc = "services"
    /\ leaderCalls' = <<>>
    /\ \E name \in rangeLeft :
          /\ rangeLeft' = rangeLeft \ {name}
          /\ \/ /\ pingOk' = pingOk \cup ({name} \cap services)
                /\ UNCHANGED <<services, closed, pingFailed>>
             \/ PingFails(name)
    /\ UNCHANGED <<membershipType, held, busEvent, sideVars, cbVars, amILeader, leaderService, sdInfo, sent, assigned,
                   monitorPc, names, sendIndex, heartbeatPc, tempLeaderService>>

\* StartHeartbeat, line 134: the Range has visited every service and the
\* loop waits for the next tick; the Pings of the tick are forgotten.
HeartbeatDone ==
    /\ heartbeatPc = "services"
    /\ leaderCalls' = <<>>
    /\ rangeLeft = {}
    /\ heartbeatPc' = "idle"
    /\ pingFailed' = {}
    /\ pingOk' = {}
    /\ UNCHANGED <<membershipType, held, busEvent, sideVars, cbVars, amILeader, services, leaderService, sdInfo,
                   sent, assigned, monitorPc, names, sendIndex, tempLeaderService,
                   closed, rangeLeft>>

\* The service discovery of an instance to which no leader is assigned: the
\* election's signals, its followers, its monitor and its heartbeat.  The
\* assignment of leaders and what the heartbeat does about a leader that
\* is down are in FollowerNext.
SDNext ==
    \/ \E name \in Followers : Add(name)
    \/ \E name \in Followers : Remove(name)
    \/ RemoveAll
    \/ BeLeader
    \/ DontBeLeader
    \/ MonitorTick
    \/ MonitorSend
    \/ HeartbeatTick
    \/ HeartbeatServices
    \/ HeartbeatDone

----------------------------------------------------------------------------

\* NewCBMembership, lines 309-311: no event handled, nobody in GetInfo.
InfoInit ==
    /\ emissions = 0
    /\ infoChan = {}
    /\ getInfoPc = "idle"
    /\ got = NilModel

\* The tasks of a membership: startHeartbeat and startMonitor, lines 263-284
\* (StartHeartbeat and StartMonitor of the service discovery, lines 103-168).
Tasks == {"heartbeat", "monitor"}

\* The tickers are created and the goroutines started: the heartbeat task
\* waits for a tick, the monitor task sleeps RebalanceDelay first.
StopInit ==
    /\ tickerStopped = {}
    /\ tickerC = [t \in Tasks |-> 0]
    /\ taskPc = [t \in Tasks |-> IF t = "monitor" THEN "sleeping" ELSE "waiting"]

\* A nil *string, and the Instance and the JSON text that are not there.
NoID == 0
NoInstance == [ID |-> NoID, Type |-> "", HeartbeatTime |-> 0, ClusterJoinTime |-> 0]
NoPayload == <<>>

\* No Instance is on its way to or from the metadata bucket.
CodecInit ==
    /\ original = NoInstance
    /\ docKey = NoID
    /\ payload = NoPayload
    /\ storedDoc = NoPayload
    /\ readDoc = NoPayload
    /\ decoded = NoInstance
    /\ codecPc = "none"

\* No bucket configuration has been read.
VBInit ==
    /\ vbucketCount = 0
    /\ memberCount = 0
    /\ vbuckets = <<>>

SideInit == InfoInit /\ StopInit /\ CodecInit /\ VBInit

Init ==
    /\ membershipType \in {"couchbase", "kubernetesHa"}
    /\ CBInit
    /\ SDInit
    /\ SideInit

Next == CBNext \/ SDNext

Spec == Init /\ [][Next]_vars

----------------------------------------------------------------------------
(* Three instances in steady state, one of which is stopped               *)

\* The list an instance in steady state has recorded: the decoded records in
\* an order the sort can give.
InstancesOf(ids) == [k \in 1..Len(ids) |-> DecodeInstance(ids[k])]

\* Every instance registered some heartbeat intervals ago (instance 1, then
\* instance 2, then or at the same clock reading instance 3), has just
\* rewritten its record, and has emitted a model for the three of them, all
\* for the same list: they hold the member numbers 1, 2 and 3.  No operation
\* on the bucket fails; one process may be stopped.
LiveInit ==
    /\ membershipType = "couchbase"
    /\ SDInit
    /\ SideInit
    /\ now = Epoch
    /\ \E joined3 \in {Epoch - 2 * ClockStep, Epoch - ClockStep} :
          clusterJoinTime = [i \in IDs |->
                               IF i = 1 THEN Epoch - 3 * ClockStep
                               ELSE IF i = 2 THEN Epoch - 2 * ClockStep
                               ELSE joined3]
    /\ docs = [i \in IDs |-> Record(now, clusterJoinTime[i])]
    /\ index = [exists |-> TRUE, entries |-> clusterJoinTime]
    /\ status = [i \in IDs |-> "running"]
    /\ \E ids \in SortedIds(clusterJoinTime) :
          lastActiveInstances = [i \in IDs |-> InstancesOf(ids)]
    /\ info = [i \in IDs |->
                 [MemberNumber |-> selfOrder(i, lastActiveInstances[i]),
                  TotalMembers |-> Len(lastActiveInstances[i])]]
    /\ outcome = NoOutcome
    /\ faultsLeft = 0
    /\ killsLeft = 1

\* A process is stopped early enough for its record's TTL to end while the
\* clock is still read.
LiveKill(i) ==
    /\ docs[i].HeartbeatTime + _expirySec <= Epoch + MaxTicks * ClockStep
    /\ Kill(i)

\* heartbeatTicker fires every _heartbeatIntervalSec: the clock does not pass
\* a heartbeat that is due in a running process.
LiveTick ==
    /\ \A i \in IDs :
          status[i] = "running" => now < docs[i].HeartbeatTime + _heartbeatIntervalSec
    /\ Tick

LiveNext ==
    \/ \E i \in IDs : heartbeat(i)
    \/ \E i \in IDs : monitor(i)
    \/ \E i \in IDs : LiveKill(i)
    \/ LiveTick

\* The tickers of a running process keep firing, and the clock keeps going.
SpecLive ==
    /\ LiveInit
    /\ [][LiveNext]_vars
    /\ WF_vars(LiveTick)
    /\ \A i \in IDs : WF_vars(heartbeat(i)) /\ WF_vars(monitor(i))

----------------------------------------------------------------------------
(* Notions the properties below are stated in                              *)

\* The ids of a list of instances, in its order.
IdsOf(instances) == [k \in 1..Len(instances) |-> instances[k].ID]

IdSetOf(instances) == {instances[k].ID : k \in 1..Len(instances)}

\* The instances a monitor cycle run in this state finds alive: the ids of the
\* index whose record is found and passes isAlive.
AliveSet ==
    {id \in DOMAIN index.entries : Found(id) /\ isAlive(docs[id].HeartbeatTime)}

\* A step of the monitor cycle of instance i: every other action changes the
\* clock, a record, a clusterJoinTime, killsLeft or the status of an instance
\* that is not running, and a cycle of another instance logs its own id.
MonitorStep(i) ==
    /\ status[i] = "running"
    /\ outcome'.id = i
    /\ UNCHANGED <<now, docs, clusterJoinTime, killsLeft>>
    /\ \A j \in IDs \ {i} : status'[j] = status[j]

\* A monitor cycle of instance i which got through its reads (no error of
\* the index read, none of a record read).
CycleCompletes(i) ==
    /\ MonitorStep(i)
    /\ outcome'.result \in {"unchanged", "emitted", "selfNotFound"}

\* A step in which instance i emits MembershipChanged.
Emits(i) ==
    /\ MonitorStep(i)
    /\ outcome'.result = "emitted"

ValidModel(m) ==
    /\ 1 <= m.MemberNumber
    /\ m.MemberNumber <= m.TotalMembers
    /\ m.TotalMembers >= 1

----------------------------------------------------------------------------
(* C1: every model an instance of the self-organizing membership emits has *)
(* memberNumber = the instance's own 1-based position in the list of the   *)
(* instances its cycle found alive, that list being in ascending order of  *)
(* the records' clusterJoinTime, and totalMembers = the length of the list.*)
C1_MemberNumberIsPosition ==
    \A i \in IDs :
        info[i] # NilModel =>
            LET instances == lastActiveInstances[i] IN
            /\ info[i].TotalMembers = Len(instances)
            /\ info[i].MemberNumber \in 1..Len(instances)
            /\ instances[info[i].MemberNumber].ID = i
            /\ \A k, l \in 1..Len(instances) :
                    /\ (k # l => instances[k].ID # instances[l].ID)
                    /\ (k < l => instances[k].ClusterJoinTime <= instances[l].ClusterJoinTime)
                    /\ instances[k].ClusterJoinTime = clusterJoinTime[instances[k].ID]

\* An instance that joined after another one has emitted the second of three.
C1_Witness ==
    \E i \in IDs :
        /\ info[i] = [MemberNumber |-> 2, TotalMembers |-> 3]
        /\ \E j \in IDs : clusterJoinTime[j] < clusterJoinTime[i]

----------------------------------------------------------------------------
(* C2: a record whose heartbeatTime is more than _heartbeatToleranceSec    *)
(* older than the time of the cycle is left out of the list the cycle      *)
(* emits a model for, also while its document still exists.                *)
C2_StaleRecordExcluded ==
    [][\A i \in IDs :
          Emits(i) =>
              \A id \in IdSetOf(lastActiveInstances'[i]) :
                  now - docs[id].HeartbeatTime <= _heartbeatToleranceSec]_vars

----------------------------------------------------------------------------
(* C3, as it stands: no two consecutive models emitted by one instance     *)
(* carry the same (memberNumber, totalMembers).                            *)
C3_NoEqualConsecutiveModels ==
    [][\A i \in IDs : Emits(i) => info'[i] # info[i]]_vars

(* C3, amended: no two consecutive models emitted by one instance are for  *)
(* the same list of alive instance ids (same ids in the same order); the   *)
(* pair (memberNumber, totalMembers) may repeat.                           *)
C3_NoEmissionForSameList ==
    [][\A i \in IDs :
          Emits(i) =>
              /\ IdsOf(lastActiveInstances'[i]) # IdsOf(lastActiveInstances[i])
              /\ info'[i] = [MemberNumber |-> selfOrder(i, lastActiveInstances'[i]),
                             TotalMembers |-> Len(lastActiveInstances'[i])]]_vars

\* Instance 1 has emitted (1,2) for the list <<1, 3>>: instance 2, which
\* joined with it, has been replaced by instance 3.
C3_Witness ==
    /\ outcome = Outcome(1, "emitted")
    /\ info[1] = [MemberNumber |-> 1, TotalMembers |-> 2]
    /\ IdsOf(lastActiveInstances[1]) = <<1, 3>>
    /\ clusterJoinTime[2] = clusterJoinTime[1]
    /\ docs[2].present

----------------------------------------------------------------------------
(* C4: a monitor cycle that got through its reads and did not find the     *)
(* instance's own id alive ends fatally and emits nothing, whatever list   *)
(* was recorded before.                                                    *)
C4_SelfNotAliveIsFatal ==
    [][\A i \in IDs :
          (CycleCompletes(i) /\ i \notin AliveSet) =>
              /\ status'[i] = "panicked"
              /\ info'[i] = info[i]]_vars

----------------------------------------------------------------------------
(* C5: the list a cycle computes is ordered by clusterJoinTime and, among  *)
(* equal clusterJoinTime, by instance id; so two instances that recorded   *)
(* the same alive set recorded the same list and hold different            *)
(* memberNumbers.                                                          *)
C5_DeterministicOrder ==
    /\ \A i \in IDs :
          LET instances == lastActiveInstances[i] IN
          \A k, l \in 1..Len(instances) :
              k < l =>
                  \/ instances[k].ClusterJoinTime < instances[l].ClusterJoinTime
                  \/ /\ instances[k].ClusterJoinTime = instances[l].ClusterJoinTime
                     /\ instances[k].ID < instances[l].ID
    /\ \A i, j \in IDs :
          (/\ i # j
           /\ info[i] # NilModel
           /\ info[j] # NilModel
           /\ IdSetOf(lastActiveInstances[i]) = IdSetOf(lastActiveInstances[j]))
          => /\ lastActiveInstances[i] = lastActiveInstances[j]
             /\ info[i].MemberNumber # info[j].MemberNumber

----------------------------------------------------------------------------
(* C6: with three instances in steady state, once one of them is stopped   *)
(* for good, eventually the two others hold models (k, 2), one with k = 1  *)
(* and the other with k = 2.                                               *)
C6_SurvivorsRenumber ==
    \A d \in IDs :
        (status[d] = "killed") ~>
            (/\ \A i \in IDs \ {d} : info[i].TotalMembers = 2
             /\ {info[i].MemberNumber : i \in IDs \ {d}} = {1, 2})

----------------------------------------------------------------------------
(* C7, as it stands: a monitor cycle that got through its reads and found  *)
(* an alive set other than the recorded one emits a model, and afterwards  *)
(* the index maps exactly the alive ids to their clusterJoinTime.          *)
C7_ChangedSetIsEmittedAndIndexed ==
    [][\A i \in IDs :
          (CycleCompletes(i) /\ AliveSet # IdSetOf(lastActiveInstances[i])) =>
              /\ outcome'.result = "emitted"
              /\ index' = [exists |-> TRUE,
                           entries |-> [id \in AliveSet |-> docs[id].ClusterJoinTime]]]_vars

(* C7, amended: such a cycle of an instance that is itself in the alive    *)
(* set emits a model and writes the index; when the write succeeds the     *)
(* index maps exactly the alive ids to their clusterJoinTime, when it      *)
(* fails the index is as it was.                                           *)
C7_ChangedSetWithSelfIsEmitted ==
    [][\A i \in IDs :
          (/\ CycleCompletes(i)
           /\ AliveSet # IdSetOf(lastActiveInstances[i])
           /\ i \in AliveSet) =>
              /\ outcome'.result = "emitted"
              /\ IdSetOf(lastActiveInstances'[i]) = AliveSet
              /\ \/ /\ faultsLeft' = faultsLeft
                    /\ index' = [exists |-> TRUE,
                                 entries |-> [id \in AliveSet |-> docs[id].ClusterJoinTime]]
                 \/ /\ faultsLeft' < faultsLeft
                    /\ index' = index]_vars

\* Instance 2 was stopped and its record's TTL has ended; instance 1 has
\* emitted (1,1) and its write has taken the entry of instance 2 out of the
\* index.
C7_Witness ==
    /\ outcome = Outcome(1, "emitted")
    /\ status[2] = "killed"
    /\ docs[2].present /\ Expired(docs[2])
    /\ info[1] = [MemberNumber |-> 1, TotalMembers |-> 1]
    /\ index = [exists |-> TRUE, entries |-> [id \in {1} |-> clusterJoinTime[1]]]

----------------------------------------------------------------------------
(* C8: a monitor cycle whose read or decode of the index document fails    *)
(* emits nothing, leaves lastActiveInstances and the index document as     *)
(* they were, and the instance keeps running its monitor loop.             *)
C8_IndexErrorSkipsCycle ==
    [][\A i \in IDs :
          (MonitorStep(i) /\ outcome'.result = "indexError") =>
              /\ UNCHANGED <<info, lastActiveInstances, index>>
              /\ status'[i] = "running"]_vars

\* The index read of an instance that had emitted a model before has failed.
C8_Witness ==
    /\ outcome.result = "indexError"
    /\ \E i \in IDs :
          /\ outcome.id = i
          /\ status[i] = "running"
          /\ info[i] # NilModel
          /\ lastActiveInstances[i] # <<>>

----------------------------------------------------------------------------
(* C9, as it stands: a monitor cycle in which the read of an instance      *)
(* record fails with an error other than key-not-found (or the record does *)
(* not decode) is skipped: the process keeps running, nothing is emitted   *)
(* and lastActiveInstances is unchanged.                                   *)
C9_InstanceErrorSkipsCycle ==
    [][\A i \in IDs :
          (MonitorStep(i) /\ outcome'.result = "instanceError") =>
              /\ status'[i] = "running"
              /\ UNCHANGED <<info, lastActiveInstances>>]_vars

(* C9, amended: such a cycle ends the process (panic); nothing is emitted, *)
(* lastActiveInstances and the index are unchanged.  A record whose read   *)
(* answers key-not-found is not an error: the cycle goes on, and the list  *)
(* it emits a model for leaves that record out.                            *)
C9_InstanceErrorIsFatal ==
    [][\A i \in IDs :
          /\ (MonitorStep(i) /\ outcome'.result = "instanceError") =>
                 /\ status'[i] = "panicked"
                 /\ UNCHANGED <<info, lastActiveInstances, index>>
          /\ Emits(i) =>
                 \A id \in DOMAIN index.entries :
                     ~Found(id) => id \notin IdSetOf(lastActiveInstances'[i])]_vars

\* The record read of an instance that had emitted a model before has
\* failed, and the process is gone.
C9_Witness ==
    /\ outcome.result = "instanceError"
    /\ \E i \in IDs :
          /\ outcome.id = i
          /\ status[i] = "panicked"
          /\ info[i] # NilModel

----------------------------------------------------------------------------
(* C10: every model on the bus satisfies 1 <= memberNumber <= totalMembers *)
(* and totalMembers >= 1: the model of a self-organizing instance, the     *)
(* leader's own model and every assignment the leader sends to a follower. *)
C10_ModelsAreValid ==
    /\ \A i \in IDs : info[i] # NilModel => ValidModel(info[i])
    /\ sdInfo # NilModel => ValidModel(sdInfo)
    /\ \A f \in Followers : sent[f] # NilModel => ValidModel(sent[f])

\* The leader holds (1,3) and has sent its second follower (3,3).
C10_Witness ==
    /\ sdInfo = [MemberNumber |-> 1, TotalMembers |-> 3]
    /\ sent[2] = [MemberNumber |-> 3, TotalMembers |-> 3]

----------------------------------------------------------------------------
(* C11: the assignments of one monitor tick of the leader.                 *)

\* The member numbers of the Rebalance calls made since the tick began.
AssignedNumbers == {a.model.MemberNumber : a \in assigned}

\* C11 as stated: when a tick of the leader has ended, the leader holds
\* member number 1 and the numbers it sent are pairwise distinct and, with
\* its own, are exactly 1..totalMembers, whatever the heartbeat removed
\* meanwhile.
C11_AssignmentsCoverRange ==
    (monitorPc = "idle" /\ sdInfo # NilModel) =>
        /\ sdInfo.MemberNumber = 1
        /\ \A a, b \in assigned :
               a.model.MemberNumber = b.model.MemberNumber => a.name = b.name
        /\ {1} \cup AssignedNumbers = 1..sdInfo.TotalMembers

\* C11, what the code guarantees: the leader holds (1, n + 1) for the n
\* followers GetAll listed; a listed follower that is still in the map at
\* its turn is sent (its position in the ascending list + 1, n + 1), so the
\* numbers sent are pairwise distinct, ascend with the names and lie in
\* 2..n + 1; a follower removed between GetAll and its turn is skipped and
\* its number is sent to nobody in this tick, so the numbers are all of
\* 1..n + 1 only when every listed follower was sent one.
C11_AssignmentsDistinctInRange ==
    /\ sdInfo # NilModel => sdInfo.MemberNumber = 1
    /\ monitorPc = "sending" =>
          /\ sdInfo = [MemberNumber |-> 1, TotalMembers |-> Len(names) + 1]
          /\ \A a \in assigned :
                \E k \in 1..(sendIndex - 1) :
                    /\ names[k] = a.name
                    /\ a.model.MemberNumber = k + 1
    /\ \A a \in assigned :
          /\ a.model.TotalMembers = sdInfo.TotalMembers
          /\ a.model.MemberNumber \in 2..sdInfo.TotalMembers
    /\ \A a, b \in assigned :
          /\ a.model.MemberNumber = b.model.MemberNumber => a.name = b.name
          /\ a.name < b.name => a.model.MemberNumber < b.model.MemberNumber
    /\ (sdInfo # NilModel /\ Cardinality(assigned) = sdInfo.TotalMembers - 1) =>
          {1} \cup AssignedNumbers = 1..sdInfo.TotalMembers

\* A tick that listed two followers has ended; the first was removed before
\* its turn, so the second alone was sent a number, 3 of 3.
C11_Witness ==
    /\ monitorPc = "idle"
    /\ sdInfo = [MemberNumber |-> 1, TotalMembers |-> 3]
    /\ assigned = {[name |-> 2, model |-> [MemberNumber |-> 3, TotalMembers |-> 3]]}

----------------------------------------------------------------------------
(* C12: what a heartbeat tick of the service discovery leaves in the map.  *)

\* The Range of the current heartbeat tick has visited every service.
RangeOver == heartbeatPc = "services" /\ rangeLeft = {}

\* C12 as stated: when the Range of a heartbeat tick is over, every follower
\* whose Ping failed in it is absent from the map with its client closed,
\* and every follower whose Ping succeeded and that no other operation
\* removed is in the map.
C12_FailedAbsentAndClosed ==
    RangeOver =>
        /\ \A n \in pingFailed : n \notin services /\ n \in closed
        /\ \A n \in pingOk : n \in services

\* C12, what the code guarantees: the callback that finds a Ping failed
\* leaves the follower absent from the map, having closed its client if the
\* name was still in the map; the callback that finds a Ping succeeded
\* changes nothing; a follower whose Ping succeeded and that no other
\* operation removed is in the map for the rest of the tick.  Add and
\* RemoveAll run beside the tick: a follower whose Ping failed can be in the
\* map again at the end, and one that RemoveAll deleted before the
\* callback's Remove is not closed.
C12_PingOutcomeApplied ==
    /\ [](\A n \in pingOk : n \in services)
    /\ [][\A n \in Followers :
             (heartbeatPc = "services" /\ n \in rangeLeft /\ n \notin rangeLeft') =>
                 IF n \in pingFailed'
                 THEN /\ n \notin services'
                      /\ n \in services => n \in closed'
                      /\ services' = services \ {n}
                 ELSE /\ n \in services => n \in pingOk'
                      /\ services' = services
                      /\ closed' = closed]_vars

\* The Range of a tick is over: the Ping of follower 1 failed and it was
\* removed and closed, the Ping of follower 2 succeeded and it is in the map.
C12_Witness ==
    /\ RangeOver
    /\ pingFailed = {1}
    /\ pingOk = {2}
    /\ services = {2}
    /\ 1 \in closed

----------------------------------------------------------------------------
(* The follower's side of the service discovery: a leader is assigned, it  *)
(* sends assignments, which arrive through SetInfo, and the heartbeat      *)
(* watches the leader.                                                     *)

\* The largest totalMembers a leader sends.
MaxMembers == 3

\* SetInfo(memberNumber, totalMembers), lines 188-199, called for an
\* assignment the assigned leader has sent: a leader numbers its followers
\* from 2 (StartMonitor, line 161).
ReceiveAssignment(memberNumber, total) ==
    /\ membershipType = "kubernetesHa"
    /\ leaderService # NoLeader
    /\ busEvent = NilModel
    /\ sdInfo' = SetInfo(memberNumber, total).info
    /\ busEvent' = SetInfo(memberNumber, total).event
    /\ UNCHANGED <<membershipType, held, leaderCalls, sideVars, cbVars, svcVars, amILeader, services, leaderService, sent,
                   assigned, monitorPc, names, sendIndex, heartbeatPc, tempLeaderService>>

\* SetInfo, line 197: bus.Emit has called the handlers and returns.
EmitReturns ==
    /\ busEvent # NilModel
    /\ busEvent' = NilModel
    /\ UNCHANGED <<membershipType, held, leaderCalls, sideVars, cbVars, sdVars>>

FollowerInit ==
    /\ membershipType = "kubernetesHa"
    /\ CBInit
    /\ faultsLeft = 0
    /\ SDInit
    /\ SideInit

FollowerNext ==
    \/ BeLeader
    \/ DontBeLeader
    \/ \E leader \in Leaders : AssignLeader(leader)
    \/ RemoveLeader
    \/ \E total \in 2..MaxMembers : \E memberNumber \in 2..total :
          ReceiveAssignment(memberNumber, total)
    \/ EmitReturns
    \/ \E name \in Followers : Add(name)
    \/ \E name \in Followers : Remove(name)
    \/ HeartbeatTick
    \/ HeartbeatReassign
    \/ HeartbeatServices
    \/ HeartbeatDone

SpecFollower == FollowerInit /\ [][FollowerNext]_vars

\* StartHeartbeat, lines 115-120: the Ping of the leader has failed,
\* ReassignLeader has failed and RemoveLeader drops the leader.
LeaderLost ==
    /\ heartbeatPc = "reassign"
    /\ heartbeatPc' = "services"
    /\ tempLeaderService = leaderService
    /\ leaderService' = NoLeader

\* C13: at the step in which a follower finds its leader lost (the Ping and
\* the re-registration have failed) it drops its assignment: its current
\* model is none until an assignment arrives.
C13_LeaderLossDropsAssignment ==
    [][LeaderLost => sdInfo' = NilModel]_vars

----------------------------------------------------------------------------
(* GetInfo and membershipChangedListener of one cbMembership: the events   *)
(* of the bus arrive at the listener, and one caller keeps asking GetInfo. *)

MaxEmissions == 3

\* The models the bus may deliver: rebalance's (selfOrder, len(instances)).
Models ==
    {[MemberNumber |-> m, TotalMembers |-> t] : m \in 1..2, t \in 1..2} \
        {[MemberNumber |-> 2, TotalMembers |-> 1]}

\* membershipChangedListener, lines 291-298: h.info = model, and a goroutine
\* is started that sends the model on the unbuffered h.infoChan.
membershipChangedListener(i, model) ==
    /\ emissions < MaxEmissions
    /\ emissions' = emissions + 1
    /\ info' = [info EXCEPT ![i] = model]
    /\ infoChan' = infoChan \cup {[seq |-> emissions + 1, model |-> model]}
    /\ UNCHANGED <<membershipType, held, busEvent, leaderCalls, vbVars, stopVars, codecVars, sdVars, now, index, docs, status, clusterJoinTime,
                   lastActiveInstances, outcome, faultsLeft, killsLeft, getInfoPc, got>>

\* GetInfo, lines 56-59: a non-nil h.info is returned, and on nil the
\* caller goes on to the channel.
GetInfoReads(i) ==
    /\ getInfoPc = "idle"
    /\ IF info[i] # NilModel
       THEN /\ got' = info[i]
            /\ getInfoPc' = "returned"
       ELSE /\ getInfoPc' = "waiting"
            /\ UNCHANGED got
    /\ UNCHANGED <<membershipType, held, busEvent, leaderCalls, vbVars, stopVars, codecVars, cbVars, sdVars, emissions, infoChan>>

\* GetInfo, line 61: <-h.infoChan takes the model of one of the goroutines
\* that are blocked sending.
GetInfoReceives ==
    /\ getInfoPc = "waiting"
    /\ \E sender \in infoChan :
          /\ got' = sender.model
          /\ infoChan' = infoChan \ {sender}
    /\ getInfoPc' = "returned"
    /\ UNCHANGED <<membershipType, held, busEvent, leaderCalls, vbVars, stopVars, codecVars, cbVars, sdVars, emissions>>

\* The caller has its answer and may call again.
GetInfoReturned ==
    /\ getInfoPc = "returned"
    /\ getInfoPc' = "idle"
    /\ UNCHANGED <<membershipType, held, busEvent, leaderCalls, vbVars, stopVars, codecVars, cbVars, sdVars, emissions, infoChan, got>>

InfoNext ==
    \/ \E model \in Models : membershipChangedListener(1, model)
    \/ GetInfoReads(1)
    \/ GetInfoReceives
    \/ GetInfoReturned

\* NewCBMembership, line 325: the listener is subscribed at construction.
InfoStart ==
    /\ membershipType = "couchbase"
    /\ CBInit
    /\ faultsLeft = 0
    /\ SDInit
    /\ SideInit

SpecInfo == InfoStart /\ [][InfoNext]_vars

\* C14: the model GetInfo returns is the most recent one the listener has
\* handled when it returns, never an older one.
C14_GetInfoReturnsLatest ==
    [][(getInfoPc # "returned" /\ getInfoPc' = "returned") => got' = info'[1]]_vars

----------------------------------------------------------------------------
(* C15: the services map is not mutated while a Range over it is in        *)
(* progress: from the start of the Range of a heartbeat tick until its     *)
(* callback has returned for the last service no step stores or deletes a  *)
(* name, neither the callback itself nor Add, Remove or RemoveAll.         *)
C15_NoMutationDuringRange ==
    [][(heartbeatPc = "services" /\ rangeLeft # {}) => services' = services]_vars

----------------------------------------------------------------------------
(* The tickers and the tasks that range over them, and their stopping:     *)
(* Close of cbMembership, StopHeartbeat and StopMonitor of the service     *)
(* discovery.                                                              *)

\* time.Ticker: a tick is put in C, which holds one tick, unless the ticker
\* has been stopped.
TickerFires(t) ==
    /\ t \notin tickerStopped
    /\ tickerC[t] = 0
    /\ tickerC' = [tickerC EXCEPT ![t] = 1]
    /\ UNCHANGED <<membershipType, held, busEvent, leaderCalls, vbVars, cbVars, sdVars, infoVars, codecVars, tickerStopped, taskPc>>

\* startMonitor, lines 277-278 (StartMonitor, lines 146-147): the sleep of
\* RebalanceDelay ends and the task goes to its loop.
MonitorWakes ==
    /\ taskPc["monitor"] = "sleeping"
    /\ taskPc' = [taskPc EXCEPT !["monitor"] = "waiting"]
    /\ UNCHANGED <<membershipType, held, busEvent, leaderCalls, vbVars, cbVars, sdVars, infoVars, codecVars, tickerStopped, tickerC>>

\* `for range ticker.C`, lines 267 and 280 (108 and 149): the task takes
\* the tick that is in C and begins a cycle: heartbeat(), monitor() or the
\* loop body of the service discovery.
CycleBegins(t) ==
    /\ taskPc[t] = "waiting"
    /\ tickerC[t] = 1
    /\ tickerC' = [tickerC EXCEPT ![t] = 0]
    /\ taskPc' = [taskPc EXCEPT ![t] = "cycle"]
    /\ UNCHANGED <<membershipType, held, busEvent, leaderCalls, vbVars, cbVars, sdVars, infoVars, codecVars, tickerStopped>>

\* The cycle is done and the task waits on ticker.C again; Stop() does not
\* close C, so the range never ends.
CycleEnds(t) ==
    /\ taskPc[t] = "cycle"
    /\ taskPc' = [taskPc EXCEPT ![t] = "waiting"]
    /\ UNCHANGED <<membershipType, held, busEvent, leaderCalls, vbVars, cbVars, sdVars, infoVars, codecVars, tickerStopped, tickerC>>

\* Close, lines 286-289: monitorTicker.Stop(), then heartbeatTicker.Stop().
\* StopHeartbeat and StopMonitor, lines 138-140 and 170-172: Stop() of the
\* one ticker, in either order.  A tick that is in C stays there.
StopTicker(t) ==
    /\ t \notin tickerStopped
    /\ (membershipType = "couchbase" /\ t = "heartbeat") => "monitor" \in tickerStopped
    /\ tickerStopped' = tickerStopped \cup {t}
    /\ UNCHANGED <<membershipType, held, busEvent, leaderCalls, vbVars, cbVars, sdVars, infoVars, codecVars, tickerC, taskPc>>

StopNext ==
    \/ \E t \in Tasks : TickerFires(t)
    \/ MonitorWakes
    \/ \E t \in Tasks : CycleBegins(t)
    \/ \E t \in Tasks : CycleEnds(t)
    \/ \E t \in Tasks : StopTicker(t)

StopStart ==
    /\ membershipType \in {"couchbase", "kubernetesHa"}
    /\ CBInit
    /\ faultsLeft = 0
    /\ SDInit
    /\ SideInit

\* The tickers fire while they run, and the goroutines are scheduled.
SpecStop ==
    /\ StopStart
    /\ [][StopNext]_vars
    /\ \A t \in Tasks : WF_vars(TickerFires(t))
    /\ WF_vars(MonitorWakes)
    /\ \A t \in Tasks : WF_vars(CycleBegins(t))
    /\ \A t \in Tasks : WF_vars(CycleEnds(t))

\* Close, or StopHeartbeat and StopMonitor, have returned.
StopReturned == tickerStopped = Tasks

\* C16: after the stop calls have returned no cycle of the heartbeat task or
\* of the monitor task begins, and both tasks eventually finish.
C16_TasksTerminate ==
    /\ [][\A t \in Tasks :
             (StopReturned /\ taskPc[t] # "cycle") => taskPc'[t] # "cycle"]_vars
    /\ [](StopReturned => <>(\A t \in Tasks : taskPc[t] = "finished"))

----------------------------------------------------------------------------
(* C17: when register() has succeeded (the record write returns without    *)
(* error) the index document exists and maps the instance's ID to its      *)
(* clusterJoinTime, the entries of the other instances being those that    *)
(* were there, and the instance's record is there with heartbeatTime =     *)
(* clusterJoinTime and a TTL still running; when the index write or the    *)
(* record write fails the process panics and never runs.                   *)
C17_RegistrationLeavesIndexAndRecord ==
    [][\A i \in IDs :
          /\ (status[i] = "new" /\ status'[i] = "registering") =>
                 /\ index'.exists
                 /\ DOMAIN index'.entries = DOMAIN index.entries \cup {i}
                 /\ \A id \in DOMAIN index.entries \ {i} :
                        index'.entries[id] = index.entries[id]
          /\ (status[i] = "registering" /\ status'[i] = "running") =>
                 /\ index'.exists
                 /\ i \in DOMAIN index'.entries
                 /\ index'.entries[i] = clusterJoinTime'[i]
                 /\ Found(i)'
                 /\ docs'[i].HeartbeatTime = clusterJoinTime'[i]
                 /\ docs'[i].ClusterJoinTime = clusterJoinTime'[i]
          /\ status[i] = "panicked" => status'[i] = "panicked"
          /\ (status[i] \in {"new", "registering"} /\ faultsLeft' < faultsLeft) =>
                 status'[i] \in {status[i], "panicked"}]_vars

----------------------------------------------------------------------------
(* C18: the monitor loop starts rebalanceDelay after the membership.       *)

\* Instance i is registered and runs, and RebalanceDelay has not elapsed
\* since it started.
Settling(i) == status[i] = "running" /\ now < clusterJoinTime[i] + RebalanceDelay

\* C18: no monitor cycle of an instance is performed before rebalanceDelay
\* has elapsed since it started, so until then it has emitted no model, has
\* no list of active instances and does not rewrite the index; its record
\* is written by then, and a heartbeat runs whenever its own interval has
\* passed, cycle or no cycle.
C18_NoCycleBeforeRebalanceDelay ==
    /\ [](\A i \in IDs :
             /\ Settling(i) =>
                    /\ info[i] = NilModel
                    /\ lastActiveInstances[i] = <<>>
                    /\ docs[i].present
             /\ (/\ status[i] = "running"
                 /\ Found(i)
                 /\ now >= docs[i].HeartbeatTime + _heartbeatIntervalSec) =>
                    ENABLED heartbeat(i))
    /\ [][\A i \in IDs : MonitorStep(i) => ~Settling(i)]_vars
    /\ [][(\E i \in IDs : Settling(i)) /\ (\A i \in IDs : status[i] = status'[i]) =>
             \/ index' = index
             \/ \E j \in IDs : ~Settling(j) /\ Emits(j)]_vars

\* Instance 2 has registered and its delay runs; instance 1, which started
\* a clock step earlier, has written a heartbeat and has not yet performed
\* a monitor cycle.
C18_Witness ==
    /\ Settling(2)
    /\ docs[2].present
    /\ info[2] = NilModel
    /\ docs[1].HeartbeatTime > clusterJoinTime[1]
    /\ lastActiveInstances[1] = <<>>
    /\ outcome = NoOutcome

----------------------------------------------------------------------------
(* The way of an Instance through the metadata bucket: jsoniter.Marshal,   *)
(* UpdateDocument, Get, jsoniter.Unmarshal.                                *)

\* The times an Instance may carry.
MaxTimes == 2
Times == {Epoch + k * ClockStep : k \in 0..(MaxTimes - 1)}

\* Instance, lines 40-45, every value of it: ID is a *string, nil or not.
Instances ==
    [ID : {NoID} \cup IDs, Type : {_type, "other"}, HeartbeatTime : Times,
     ClusterJoinTime : Times]

\* jsoniter.Marshal(instance), the tags of lines 41-44: a JSON object with
\* the members type, heartbeatTime and clusterJoinTime, and the member id
\* unless ID is nil (omitempty).
Marshal(instance) ==
    LET members == [type |-> instance.Type,
                    heartbeatTime |-> instance.HeartbeatTime,
                    clusterJoinTime |-> instance.ClusterJoinTime]
    IN  IF instance.ID = NoID
        THEN members
        ELSE [name \in DOMAIN members \cup {"id"} |->
                 IF name = "id" THEN instance.ID ELSE members[name]]

\* The member id of the document is not looked at.
Unmarshal_KeepsPreset(json, into) ==
    [ID |-> into.ID,
     Type |-> json.type,
     HeartbeatTime |-> json.heartbeatTime,
     ClusterJoinTime |-> json.clusterJoinTime]

\* jsoniter.Unmarshal(doc, instance): every member of the object is stored
\* in its field; a field without a member keeps the value it had.
Unmarshal(json, into) ==
    [ID |-> IF "id" \in DOMAIN json THEN json.id ELSE into.ID,
     Type |-> IF "type" \in DOMAIN json THEN json.type ELSE into.Type,
     HeartbeatTime |-> IF "heartbeatTime" \in DOMAIN json
                       THEN json.heartbeatTime ELSE into.HeartbeatTime,
     ClusterJoinTime |-> IF "clusterJoinTime" \in DOMAIN json
                         THEN json.clusterJoinTime ELSE into.ClusterJoinTime]

\* An Instance value and the key of its record.
CodecStart ==
    /\ membershipType = "couchbase"
    /\ CBInit
    /\ faultsLeft = 0
    /\ SDInit
    /\ InfoInit
    /\ StopInit
    /\ VBInit
    /\ original \in Instances
    /\ docKey \in IDs
    /\ payload = NoPayload
    /\ storedDoc = NoPayload
    /\ readDoc = NoPayload
    /\ decoded = NoInstance
    /\ codecPc = "made"

\* heartbeat, line 133: payload, _ := jsoniter.Marshal(instance).
Marshals ==
    /\ codecPc = "made"
    /\ payload' = Marshal(original)
    /\ codecPc' = "marshalled"
    /\ UNCHANGED <<membershipType, held, busEvent, leaderCalls, vbVars, cbVars, sdVars, infoVars, stopVars,
                   original, docKey, storedDoc, readDoc, decoded>>

\* heartbeat, line 135: UpdateDocument(..., h.id, payload, _expirySec).
Writes ==
    /\ codecPc = "marshalled"
    /\ storedDoc' = payload
    /\ codecPc' = "written"
    /\ UNCHANGED <<membershipType, held, busEvent, leaderCalls, vbVars, cbVars, sdVars, infoVars, stopVars,
                   original, docKey, payload, readDoc, decoded>>

\* monitor, line 181: doc, err := Get(..., []byte(id)).
Reads ==
    /\ codecPc = "written"
    /\ readDoc' = storedDoc
    /\ codecPc' = "read"
    /\ UNCHANGED <<membershipType, held, busEvent, leaderCalls, vbVars, cbVars, sdVars, infoVars, stopVars,
                   original, docKey, payload, storedDoc, decoded>>

\* monitor, lines 192-194: instance := &Instance{ID: &copyID};
\* jsoniter.Unmarshal(doc, instance).
Unmarshals ==
    /\ codecPc = "read"
    /\ decoded' = Unmarshal(readDoc, [NoInstance EXCEPT !.ID = docKey])
    /\ codecPc' = "unmarshalled"
    /\ UNCHANGED <<membershipType, held, busEvent, leaderCalls, vbVars, cbVars, sdVars, infoVars, stopVars,
                   original, docKey, payload, storedDoc, readDoc>>

CodecNext == Marshals \/ Writes \/ Reads \/ Unmarshals

SpecCodec == CodecStart /\ [][CodecNext]_vars

\* C19 as stated: the Instance that was marshalled, written, read and
\* unmarshalled equals the original field by field.
C19_RoundTripIsIdentity ==
    codecPc = "unmarshalled" => decoded = original

\* C19, what the code guarantees: Type, HeartbeatTime and ClusterJoinTime
\* come back as they were; so does an ID that is not nil; for a nil ID,
\* which is what register and heartbeat write, nothing is stored and the
\* Instance read back carries the key of the document as its ID.
C19_RoundTripKeepsAllButNilID ==
    codecPc = "unmarshalled" =>
        /\ decoded.Type = original.Type
        /\ decoded.HeartbeatTime = original.HeartbeatTime
        /\ decoded.ClusterJoinTime = original.ClusterJoinTime
        /\ decoded.ID = IF original.ID = NoID THEN docKey ELSE original.ID

\* The Instance of a heartbeat, without ID, was written under key 2 and
\* read back with ID 2.
C19_Witness ==
    /\ codecPc = "unmarshalled"
    /\ original.ID = NoID
    /\ original.Type = _type
    /\ docKey = 2
    /\ decoded.ID = 2
    /\ "id" \notin DOMAIN storedDoc

----------------------------------------------------------------------------
(* VBucket discovery (specification, section 4.C): the contiguous-range    *)
(* partitioning of the vbucket IDs 0..V-1 over the members 1..totalMembers.*)

\* The largest number of vbuckets.
MaxVBuckets == 12

\* Only the members before the r-th get one vbucket more.
rangeSize_StrictRemainder(k, V, total) ==
    (V \div total) + (IF k < V % total THEN 1 ELSE 0)

\* Member k receives a range of size q + (1 if k <= r else 0), where
\* q = V div totalMembers and r = V mod totalMembers.
rangeSize(k, V, total) ==
    (V \div total) + (IF k <= V % total THEN 1 ELSE 0)

\* The ranges are concatenated in member order: the range of member k
\* begins where the ranges of the members before it end.
RECURSIVE rangeStart(_, _, _)
rangeStart(k, V, total) ==
    IF k = 1 THEN 0
    ELSE rangeStart(k - 1, V, total) + rangeSize(k - 1, V, total)

\* GetVBuckets() of member k.
GetVBuckets(k, V, total) ==
    {vbID \in 0..(V - 1) :
        /\ rangeStart(k, V, total) <= vbID
        /\ vbID < rangeStart(k, V, total) + rangeSize(k, V, total)}

\* V is read from the bucket configuration and a model with totalMembers in
\* 1..V is in force.
VBStart ==
    /\ membershipType \in {"couchbase", "kubernetesHa"}
    /\ CBInit
    /\ faultsLeft = 0
    /\ SDInit
    /\ InfoInit
    /\ StopInit
    /\ CodecInit
    /\ vbucketCount \in 1..MaxVBuckets
    /\ memberCount \in 1..vbucketCount
    /\ vbuckets = <<>>

\* The next member computes its vbuckets.
MemberDiscovers ==
    /\ Len(vbuckets) < memberCount
    /\ vbuckets' = Append(vbuckets, GetVBuckets(Len(vbuckets) + 1, vbucketCount, memberCount))
    /\ UNCHANGED <<membershipType, held, busEvent, leaderCalls, cbVars, sdVars, infoVars, stopVars, codecVars,
                   vbucketCount, memberCount>>

VBNext == MemberDiscovers

SpecVB == VBStart /\ [][VBNext]_vars

\* C20: the vbucket sets of the memberCount are pairwise disjoint, each has
\* q + (1 if k <= r) vbuckets, and when every member of 1..totalMembers has
\* its set their union is exactly 0..V-1.
C20_PartitionIsExact ==
    /\ \A k \in DOMAIN vbuckets :
          /\ Cardinality(vbuckets[k]) =
                 (vbucketCount \div memberCount)
                     + (IF k <= vbucketCount % memberCount THEN 1 ELSE 0)
          /\ \A l \in DOMAIN vbuckets : k # l => vbuckets[k] \cap vbuckets[l] = {}
          /\ \A a \in vbuckets[k] :
                \A l \in DOMAIN vbuckets : \A b \in vbuckets[l] : k < l => a < b
    /\ Len(vbuckets) = memberCount =>
          UNION {vbuckets[k] : k \in DOMAIN vbuckets} = 0..(vbucketCount - 1)

\* 11 vbuckets over 3 memberCount: 4, 4 and 3 of them.
C20_Witness ==
    /\ vbucketCount = 11
    /\ memberCount = 3
    /\ vbuckets = <<0..3, 4..7, 8..10>>

----------------------------------------------------------------------------
(* C21: a monitor cycle that computes the alive instances it recorded at   *)
(* the last emission, in the same order, is a no-op: no model is emitted,  *)
(* the index document is not written and lastActiveInstances stays; a      *)
(* cycle emits only for a list of IDs that differs from the recorded one.  *)
C21_UnchangedCycleIsNoOp ==
    [][\A i \in IDs :
          /\ (MonitorStep(i) /\ outcome'.result = "unchanged") =>
                 /\ info' = info
                 /\ index' = index
                 /\ lastActiveInstances' = lastActiveInstances
                 /\ status' = status
          /\ (MonitorStep(i) /\ IdsOf(lastActiveInstances'[i]) = IdsOf(lastActiveInstances[i])) =>
                 /\ info' = info
                 /\ index' = index]_vars

\* Instance 1 holds (1, 2) for a list of two and its last cycle found the
\* cluster unchanged.
C21_Witness ==
    /\ outcome = Outcome(1, "unchanged")
    /\ info[1] = [MemberNumber |-> 1, TotalMembers |-> 2]
    /\ Len(lastActiveInstances[1]) = 2

----------------------------------------------------------------------------
(* C22: SetInfo of the service discovery emits MembershipChanged and       *)
(* stores the new model exactly when the pair (memberNumber, totalMembers) *)
(* differs from the stored model, or none is stored; otherwise nothing is  *)
(* emitted and the stored model stays.  The model on the bus is the stored *)
(* one, and no emission carries the pair of the emission before it.        *)
C22_EmitsExactlyOnChange ==
    /\ [](busEvent # NilModel => busEvent = sdInfo)
    /\ [][(busEvent = NilModel /\ busEvent' # NilModel) =>
             (sdInfo' # sdInfo /\ busEvent' = sdInfo')]_vars
    /\ [][sdInfo' # sdInfo => busEvent' = sdInfo']_vars
    /\ [](\A total \in 2..MaxMembers : \A memberNumber \in 2..total :
             LET pair == [MemberNumber |-> memberNumber, TotalMembers |-> total]
             IN  (leaderService # NoLeader /\ busEvent = NilModel) =>
                    IF pair # sdInfo
                    THEN ENABLED (/\ ReceiveAssignment(memberNumber, total)
                                  /\ sdInfo' = pair
                                  /\ busEvent' = pair)
                    ELSE ~ENABLED (/\ ReceiveAssignment(memberNumber, total)
                                   /\ (sdInfo' # sdInfo \/ busEvent' # NilModel)))

\* A follower that held another model has stored (2, 3) and the bus is
\* dispatching it.
C22_Witness ==
    /\ leaderService # NoLeader
    /\ ~amILeader
    /\ sdInfo = [MemberNumber |-> 2, TotalMembers |-> 3]
    /\ busEvent = sdInfo

----------------------------------------------------------------------------
(* C23: an instance that is not leader issues no assignments.              *)

\* StartMonitor, lines 149-157: a tick is taken and goes past the check of
\* amILeader.
TickTaken == monitorPc = "idle" /\ monitorPc' = "sending"

\* C23: a monitor tick is taken past the leader check only while amILeader
\* is true, that is after BeLeader and before the next DontBeLeader; the
\* instance's own model changes only in such a step, and a Rebalance is
\* sent only in the course of a tick so taken.  A tick taken while
\* amILeader is false changes nothing.
C23_NonLeaderIssuesNothing ==
    /\ [][TickTaken => amILeader]_vars
    /\ [][sdInfo' # sdInfo => (TickTaken /\ amILeader)]_vars
    /\ [][(sent' # sent \/ ~(assigned' \subseteq assigned)) => monitorPc = "sending"]_vars
    /\ [](~amILeader /\ monitorPc = "idle" => ~ENABLED MonitorTick)
    /\ [](monitorPc = "idle" /\ sdInfo = NilModel => \A f \in Followers : sent[f] = NilModel)

\* The instance was leader of one follower and has sent it (2, 2); it is
\* leader no more, a follower more has been added, and the model and the
\* assignment are those of its last tick as leader.
C23_Witness ==
    /\ ~amILeader
    /\ monitorPc = "idle"
    /\ services = {1, 2}
    /\ sdInfo = [MemberNumber |-> 1, TotalMembers |-> 2]
    /\ assigned = {[name |-> 1, model |-> [MemberNumber |-> 2, TotalMembers |-> 2]]}

----------------------------------------------------------------------------
(* C24: the heartbeat tick of a follower whose leader does not answer.     *)

\* StartHeartbeat, lines 113-121: the step from the failed Ping of the
\* leader to the Range over the services.
ReassignStep == heartbeatPc = "reassign" /\ heartbeatPc' = "services"

\* The clients the calls op of a tick were made on, one entry per call.
CallsOf(calls, op) == SelectSeq(calls, LAMBDA c : c.op = op)

----------------------------------------------------------------------------
(* C25: an instance that has registered and whose record is alive is in    *)
(* the index document: whatever the interleaving of its registration (the  *)
(* index upsert, then the record write) with the monitor cycles of the     *)
(* other instances, its entry is in the index when both have completed.    *)
C25_RegisteredStaysInIndex ==
    \A i \in IDs :
       (status[i] = "running" /\ Found(i)) =>
           (index.exists /\ i \in DOMAIN index.entries)

----------------------------------------------------------------------------
(* The monitor of a leader whose Rebalance calls may fail: the followers   *)
(* come and go, the election gives and takes the leadership, and the       *)
(* monitor ticker keeps firing.                                            *)

RetryNext ==
    \/ \E name \in Followers : Add(name)
    \/ \E name \in Followers : Remove(name)
    \/ BeLeader
    \/ DontBeLeader
    \/ MonitorTick
    \/ MonitorSend

RetryStart ==
    /\ membershipType = "kubernetesHa"
    /\ CBInit
    /\ faultsLeft = 0
    /\ SDInit
    /\ SideInit

\* StartMonitor, lines 160-161: the Rebalance sent to follower f in its turn
\* of the tick reaches it.
Delivered(f) ==
    /\ MonitorSend
    /\ sendIndex <= Len(names)
    /\ names[sendIndex] = f
    /\ held'[f] = sent'[f]

\* monitorTicker keeps firing and the loop goes through its sends; a
\* Rebalance that is tried again and again reaches the follower at last.
SpecRetry ==
    /\ RetryStart
    /\ [][RetryNext]_vars
    /\ WF_vars(MonitorTick)
    /\ WF_vars(MonitorSend)
    /\ \A f \in Followers : SF_vars(Delivered(f))

\* The place of follower f among the followers S, in the order of GetAll.
RankIn(f, S) == Cardinality({g \in S : g <= f})

\* The leader holds (1, N) and the followers S hold (2, N) .. (N, N) in the
\* order of their names, N being the number of followers and one.
AllAssigned(S) ==
    /\ sdInfo = [MemberNumber |-> 1, TotalMembers |-> Cardinality(S) + 1]
    /\ \A f \in S :
          held[f] = [MemberNumber |-> RankIn(f, S) + 1,
                     TotalMembers |-> Cardinality(S) + 1]

\* C26: a failed assignment is retried: the leader sends every follower its
\* assignment on every monitor tick, so when the instance stays leader, the
\* set of its followers stays as it is and the Rebalance calls succeed at
\* last, the leader and the followers come to hold (k, N) for k = 1..N,
\* N = followers + 1, and go on holding them.
C26_FailedAssignmentIsRetried ==
    \A S \in SUBSET Followers :
       <>[](amILeader /\ services = S) => <>[]AllAssigned(S)

\* The leader of the followers 1 and 2 has ended a tick; it holds (1, 3) and
\* they hold (2, 3) and (3, 3).
C26_Witness ==
    /\ amILeader
    /\ services = {1, 2}
    /\ monitorPc = "idle"
    /\ AllAssigned({1, 2})

----------------------------------------------------------------------------
(* C27: the goroutines of membershipChangedListener.                       *)

\* The goroutines are scheduled, and the caller of GetInfo keeps calling and
\* takes what the channel offers.
SpecInfoFair ==
    /\ InfoStart
    /\ [][InfoNext]_vars
    /\ WF_vars(GetInfoReads(1))
    /\ WF_vars(GetInfoReceives)
    /\ WF_vars(GetInfoReturned)

\* The goroutine the listener started for its seq-th event is blocked in
\* h.infoChan <- model (line 296).
Sending(seq) == \E sender \in infoChan : sender.seq = seq

\* C27: every goroutine the listener starts to publish its model on the
\* unbuffered infoChan eventually terminates, however many events arrive
\* and however GetInfo is called.
C27_ListenerGoroutinesTerminate ==
    \A seq \in 1..MaxEmissions : Sending(seq) ~> ~Sending(seq)

----------------------------------------------------------------------------
(* C28: the clusterJoinTime the index document stores for the ID of a      *)
(* registered instance is the clusterJoinTime of its record, in every      *)
(* state: a heartbeat rewrites the record with the clusterJoinTime it had, *)
(* and a rewrite of the index copies the value from the record.            *)
C28_IndexAgreesWithRecord ==
    /\ [](\A i \in IDs :
             (index.exists /\ i \in DOMAIN index.entries /\ docs[i].present) =>
                 /\ index.entries[i] = docs[i].ClusterJoinTime
                 /\ index.entries[i] = clusterJoinTime[i])
    /\ [][\A i \in IDs :
             (docs[i].present /\ docs'[i].present) =>
                 docs'[i].ClusterJoinTime = docs[i].ClusterJoinTime]_vars

\* Instance 1 has written a heartbeat and has then rewritten the index for
\* itself and instance 2, which joined later.
C28_Witness ==
    /\ outcome = Outcome(1, "emitted")
    /\ docs[1].present
    /\ docs[1].HeartbeatTime > docs[1].ClusterJoinTime
    /\ index.exists
    /\ DOMAIN index.entries = {1, 2}
    /\ docs[2].present
    /\ index.entries[2] > index.entries[1]
    /\ Len(lastActiveInstances[1]) = 2

====
